---- MODULE Spec2Model ----
(***************************************************************************)
(* Model of imu_integration::estimator::Activity (estimator/activity.cpp): *)
(* the strapdown integration cycle driven by Run.                          *)
(*                                                                         *)
(* Numbers are exact integers in scaled units.  Time is in ticks.  Angles  *)
(* are in quarter turns about the z axis, so a rotation is one of the four *)
(* integer matrices RotZ(k) and the quaternion product q*dq is the matrix  *)
(* product.  Angular velocities, specific forces and the auxiliary poses   *)
(* are drawn from even values, so that every 0.5*... of the code is exact. *)
(* A floating point NaN (vector or matrix) is the value NaN.               *)
(***************************************************************************)
EXTENDS Integers, Sequences, FiniteSets, TLC

\* ---------------------------------------------------------------- bounds
\* Largest timestamp a sensor stream produces.
MaxTime == 3
\* Inertial samples delivered to one engine instance.
MaxImu == 4
\* Auxiliary pose samples delivered to one engine instance.
MaxOdom == 3
\* Engine instances constructed one after another in the process.
MaxInstances == 2

\* ------------------------------------------------------------ arithmetic
NaN == <<>>

IsNaN(x) == x = NaN

Zero3 == <<0, 0, 0>>

VAdd(a, b) == IF IsNaN(a) \/ IsNaN(b) THEN NaN ELSE [i \in 1..3 |-> a[i] + b[i]]

VSub(a, b) == IF IsNaN(a) \/ IsNaN(b) THEN NaN ELSE [i \in 1..3 |-> a[i] - b[i]]

\* k*v for an integer scalar k
VScale(k, v) == IF IsNaN(v) THEN NaN ELSE [i \in 1..3 |-> k * v[i]]

\* 0.5*v (every v the model halves has even components)
VHalf(v) == IF IsNaN(v) THEN NaN ELSE [i \in 1..3 |-> v[i] \div 2]

\* R*v
MatVec(R, v) ==
    IF IsNaN(R) \/ IsNaN(v) THEN NaN
    ELSE [i \in 1..3 |-> R[i][1] * v[1] + R[i][2] * v[2] + R[i][3] * v[3]]

\* A*B
MatMul(A, B) ==
    IF IsNaN(A) \/ IsNaN(B) THEN NaN
    ELSE [i \in 1..3 |-> [j \in 1..3 |->
            A[i][1] * B[1][j] + A[i][2] * B[2][j] + A[i][3] * B[3][j]]]

Identity3 == <<<<1, 0, 0>>, <<0, 1, 0>>, <<0, 0, 1>>>>

\* cos and sin of k quarter turns
Cos4(k) == CASE k % 4 = 0 -> 1 [] k % 4 = 2 -> 0 - 1 [] OTHER -> 0

Sin4(k) == CASE k % 4 = 1 -> 1 [] k % 4 = 3 -> 0 - 1 [] OTHER -> 0

\* the rotation by k quarter turns about z
RotZ(k) == <<<<Cos4(k), 0 - Sin4(k), 0>>, <<Sin4(k), Cos4(k), 0>>, <<0, 0, 1>>>>

\* the quarter turns of a rotation about z
AngleOf(R) == CHOOSE k \in 0..3 : RotZ(k) = R

Last(q) == q[Len(q)]

\* --------------------------------------------------------- configuration
\* gravity acceleration (4 units = 9.81 m/s^2)
G_ == <<0, 0, 0 - 4>>

angular_vel_bias_ == Zero3

linear_acc_bias_ == Zero3

\* ------------------------------------------------------------ the inputs
\* what an inertial sample measures: at rest (no rotation, the specific
\* force equal to gravity), or turning about z at 2 quarter turns per tick
\* while accelerating along body x
ImuReadings ==
    { [angular_velocity |-> <<0, 0, 0>>, linear_acceleration |-> <<0, 0, 0 - 4>>],
      [angular_velocity |-> <<0, 0, 2>>, linear_acceleration |-> <<4, 0, 0 - 4>>] }

\* timestamp of an inertial sample relative to the one before it: a sample
\* may repeat a timestamp or arrive out of order
ImuSteps == {0 - 1, 0, 1}

\* timestamp of an auxiliary sample relative to the one before it: the
\* auxiliary stream is strictly ascending
OdomPeriods == {1, 2}

\* the auxiliary stream's pose and velocity at time t: the ground truth of
\* a body moving along x at 2 units per tick and making a half turn per tick
OdomState(t) ==
    [pose |-> [R |-> RotZ(2 * t), t |-> <<2 * t, 0, 0>>], vel |-> <<2, 0, 0>>]

IMUData(t, w, f) == [time |-> t, angular_velocity |-> w, linear_acceleration |-> f]

OdomData(t, p, v) == [time |-> t, pose |-> p, vel |-> v]

\* ----------------------------------------------------------------- state
VARIABLES
    initialized_,       \* Activity::initialized_
    pose_,              \* Activity::pose_: [R: rotation block, t: translation block]
    vel_,               \* Activity::vel_
    init_time_,         \* Activity::init_time_: <<>> while never assigned, else <<time>>
    imu_data_buff_,     \* Activity::imu_data_buff_
    odom_data_buff_,    \* Activity::odom_data_buff_
    message_odom_,      \* Activity::message_odom_: <<>> or the last pose published
    sensor_inited,      \* static local of UpdatePose, shared by all instances
    imu_sub,            \* samples queued in the inertial subscriber
    odom_sub,           \* samples queued in the auxiliary subscriber
    pc,                 \* position in Run: "idle" (not running) or "loop"
    step,               \* what the last pass of Run's loop did
    locals,             \* the locals of the last UpdatePose call
    imu_clock,          \* timestamp of the last inertial sample produced
    odom_clock,         \* timestamp of the last auxiliary sample produced
    n_imu,              \* inertial samples produced for this instance
    n_odom,             \* auxiliary samples produced for this instance
    instances           \* engine instances constructed so far

vars == <<initialized_, pose_, vel_, init_time_, imu_data_buff_, odom_data_buff_,
          message_odom_, sensor_inited, imu_sub, odom_sub, pc,
          step, locals, imu_clock, odom_clock, n_imu, n_odom, instances>>

\* the fields of one engine instance
instance_vars == <<initialized_, pose_, vel_, init_time_, imu_data_buff_,
                   odom_data_buff_, message_odom_>>

\* the navigation state
nav_vars == <<initialized_, pose_, vel_, init_time_>>

NoLocals ==
    [index_curr |-> 0, index_prev |-> 0, angular_delta |-> Zero3,
     R_curr |-> Identity3, R_prev |-> Identity3,
     delta_t |-> 0, velocity_delta |-> Zero3, valid_odom |-> FALSE]

\* Activity::Activity: the fields of a new instance.  The constructor's
\* initializer list sets initialized_; pose_ and vel_ start as the identity
\* transform and zero (the class's member initializers), init_time_ is not
\* assigned before initialization
Constructed ==
    /\ initialized_ = FALSE
    /\ pose_ = [R |-> Identity3, t |-> Zero3]
    /\ vel_ = Zero3
    /\ init_time_ = <<>>
    /\ imu_data_buff_ = <<>>
    /\ odom_data_buff_ = <<>>
    /\ message_odom_ = <<>>

\* a new instance's subscribers and the streams feeding them
Attached ==
    /\ imu_sub = <<>>
    /\ odom_sub = <<>>
    /\ pc = "idle"
    /\ step = "none"
    /\ locals = NoLocals
    /\ imu_clock = 0
    /\ odom_clock = 0
    /\ n_imu = 0
    /\ n_odom = 0

Init ==
    /\ Constructed
    /\ Attached
    /\ sensor_inited = FALSE
    /\ instances = 1

\* ------------------------------------------------ sample synchronization
\* the bracket scan: drop the front while the second sample is before t
RECURSIVE DropBefore(_, _)
DropBefore(q, t) ==
    IF Len(q) >= 2 /\ q[2].time < t THEN DropBefore(Tail(q), t) ELSE q

\* the sample interpolated between prev and curr at time t
Interpolate(prev, curr, t) ==
    LET num == t - prev.time
        den == curr.time - prev.time
        lerp(a, b) == [i \in 1..3 |-> a[i] + ((b[i] - a[i]) * num) \div den]
        ap == AngleOf(prev.pose.R)
        ac == AngleOf(curr.pose.R)
    IN  OdomData(t,
                 [R |-> RotZ(ap + ((ac - ap) * num) \div den),
                  t |-> lerp(prev.pose.t, curr.pose.t)],
                 lerp(prev.vel, curr.vel))

\* OdomData::SyncData(UnsyncedData, SyncedData, sync_time)
SyncData(UnsyncedData, SyncedData, sync_time) ==
    IF Len(UnsyncedData) = 0 \/ UnsyncedData[1].time > sync_time
    THEN [valid |-> FALSE, unsynced |-> UnsyncedData, synced |-> SyncedData]
    ELSE LET q == DropBefore(UnsyncedData, sync_time)
         IN  IF Len(q) < 2
             THEN [valid |-> FALSE, unsynced |-> q, synced |-> SyncedData]
             ELSE [valid |-> TRUE, unsynced |-> Tail(q),
                   synced |-> Append(SyncedData, Interpolate(q[1], q[2], sync_time))]

\* ------------------------------------------------------- the integrators
GetUnbiasedAngularVel(angular_vel) == VSub(angular_vel, angular_vel_bias_)

GetUnbiasedLinearAcc(linear_acc, R) ==
    VSub(MatVec(R, VSub(linear_acc, linear_acc_bias_)), G_)

\* imu_data_buff_.at(index), index counted from 0
ImuAt(index) == imu_data_buff_[index + 1]

\* the index guard shared by the delta computations
IndexGuard(index_curr, index_prev) ==
    ~(index_curr <= index_prev \/ Len(imu_data_buff_) <= index_curr)

GetAngularDelta(index_curr, index_prev) ==
    IF ~IndexGuard(index_curr, index_prev)
    THEN [ok |-> FALSE, angular_delta |-> Zero3]
    ELSE LET imu_data_curr == ImuAt(index_curr)
             imu_data_prev == ImuAt(index_prev)
             delta_t == imu_data_curr.time - imu_data_prev.time
             angular_vel_curr == GetUnbiasedAngularVel(imu_data_curr.angular_velocity)
             angular_vel_prev == GetUnbiasedAngularVel(imu_data_prev.angular_velocity)
         IN  [ok |-> TRUE,
              angular_delta |->
                  VHalf(VScale(delta_t, VAdd(angular_vel_curr, angular_vel_prev)))]

\* GetVelocityDelta with a guard of its own on the timestamps, which
\* GetAngularDelta does not share
GetVelocityDeltaOwnGuard(index_curr, index_prev, R_curr, R_prev) ==
    IF ~IndexGuard(index_curr, index_prev)
       \/ ImuAt(index_curr).time <= ImuAt(index_prev).time
    THEN [ok |-> FALSE, delta_t |-> 0, velocity_delta |-> Zero3]
    ELSE LET delta_t == ImuAt(index_curr).time - ImuAt(index_prev).time
             linear_acc_curr ==
                 GetUnbiasedLinearAcc(ImuAt(index_curr).linear_acceleration, R_curr)
             linear_acc_prev ==
                 GetUnbiasedLinearAcc(ImuAt(index_prev).linear_acceleration, R_prev)
         IN  [ok |-> TRUE, delta_t |-> delta_t,
              velocity_delta |->
                  VHalf(VScale(delta_t, VAdd(linear_acc_curr, linear_acc_prev)))]

GetVelocityDelta(index_curr, index_prev, R_curr, R_prev) ==
    IF ~IndexGuard(index_curr, index_prev)
    THEN [ok |-> FALSE, delta_t |-> 0, velocity_delta |-> Zero3]
    ELSE LET imu_data_curr == ImuAt(index_curr)
             imu_data_prev == ImuAt(index_prev)
             delta_t == imu_data_curr.time - imu_data_prev.time
             linear_acc_curr == GetUnbiasedLinearAcc(imu_data_curr.linear_acceleration, R_curr)
             linear_acc_prev == GetUnbiasedLinearAcc(imu_data_prev.linear_acceleration, R_prev)
         IN  [ok |-> TRUE, delta_t |-> delta_t,
              velocity_delta |->
                  VHalf(VScale(delta_t, VAdd(linear_acc_curr, linear_acc_prev)))]

\* What Eigen's normalized() returns for a vector of norm zero: the vector
\* itself (Eigen 3.3 and later) or 0/0 in every component (before 3.3).
NormalizedOfZero == {"unchanged", "nan"}

\* angular_delta.norm(), for a rotation vector along z
Norm(v) == IF v[3] < 0 THEN 0 - v[3] ELSE v[3]

\* angular_delta.normalized(), for a rotation vector along z
Normalized(v, nz) ==
    IF v = Zero3 THEN (IF nz = "nan" THEN NaN ELSE v)
    ELSE <<0, 0, IF v[3] < 0 THEN 0 - 1 ELSE 1>>

\* the rotation of the quaternion (cos(mag/2), sin(mag/2)*dir)
DeltaQ(mag, dir) ==
    IF IsNaN(dir) THEN NaN
    ELSE IF dir = Zero3 THEN Identity3
    ELSE RotZ(dir[3] * mag)

\* Activity::UpdateOrientation on the rotation block R of pose_
UpdateOrientation(R, angular_delta, nz) ==
    LET angular_delta_mag == Norm(angular_delta)
        angular_delta_dir == Normalized(angular_delta, nz)
        dq == DeltaQ(angular_delta_mag, angular_delta_dir)
        q == MatMul(R, dq)
    IN  [R |-> q, R_prev |-> R, R_curr |-> q]

\* UpdatePosition with the two statements swapped: the velocity is advanced
\* first and the position uses the advanced velocity
UpdatePositionVelocityFirst(pose, vel, delta_t, velocity_delta) ==
    [pose_ |-> [pose EXCEPT !.t =
                    VAdd(pose.t, VAdd(VScale(delta_t, VAdd(vel, velocity_delta)),
                                      VHalf(VScale(delta_t, velocity_delta))))],
     vel_ |-> VAdd(vel, velocity_delta)]

\* Activity::UpdatePosition on pose_ and vel_
UpdatePosition(pose, vel, delta_t, velocity_delta) ==
    [pose_ |-> [pose EXCEPT !.t =
                    VAdd(pose.t, VAdd(VScale(delta_t, vel),
                                      VHalf(VScale(delta_t, velocity_delta))))],
     vel_ |-> VAdd(vel, velocity_delta)]

\* ------------------------------------------------------------- the cycle
HasData ==
    IF Len(imu_data_buff_) < 2 THEN FALSE
    ELSE IF Len(odom_data_buff_) < 2 THEN FALSE
    ELSE TRUE

\* the branch test without the latch: the initialization branch is taken
\* on every call
NeedsInitUnlatched == TRUE

\* the branch of UpdatePose
NeedsInit == ~initialized_

\* the oldest sample kept instead of the newest
MoveForwardOldest(buff) == <<Head(buff)>>

\* clear() followed by push_back of the copy taken of back()
MoveForward(buff) == <<Last(buff)>>

\* Activity::UpdatePose: the values of the fields, the statics and the
\* locals when the call returns; nz is what normalized() makes of zero.
\* The static deque unsynced_odom_ is assigned from odom_data_buff_ before
\* its only use in every call, so it carries nothing from one call to the
\* next: it is the first argument of SyncData here.
UpdatePose(nz) ==
    LET cur == [ret |-> FALSE, step |-> "none",
                initialized_ |-> initialized_, pose_ |-> pose_, vel_ |-> vel_,
                init_time_ |-> init_time_,
                imu_data_buff_ |-> imu_data_buff_,
                odom_data_buff_ |-> odom_data_buff_,
                sensor_inited |-> sensor_inited,
                locals |-> NoLocals]
    IN
    IF NeedsInit THEN
        IF Len(imu_data_buff_) = 0
        THEN [cur EXCEPT !.step = "fail_empty"]
        ELSE
        LET cloud_time == Last(imu_data_buff_).time
            sync == SyncData(odom_data_buff_, odom_data_buff_, cloud_time)
        IN  IF ~sensor_inited /\ ~sync.valid
            THEN [cur EXCEPT !.step = "fail_sync",
                             !.odom_data_buff_ = sync.synced]
            ELSE
            LET odom_data == Last(sync.synced)
            IN  [cur EXCEPT !.ret = TRUE, !.step = "init",
                            !.sensor_inited = TRUE,
                            !.pose_ = odom_data.pose,
                            !.vel_ = odom_data.vel,
                            !.init_time_ = <<odom_data.time>>,
                            !.initialized_ = TRUE,
                            !.imu_data_buff_ = MoveForward(imu_data_buff_),
                            !.odom_data_buff_ = MoveForward(sync.synced),
                            !.locals = [NoLocals EXCEPT !.valid_odom = sync.valid]]
    ELSE
        LET index_curr == Len(imu_data_buff_) - 1
            index_prev == 0
            ad == GetAngularDelta(index_curr, index_prev)
            l1 == [NoLocals EXCEPT !.index_curr = index_curr,
                                   !.index_prev = index_prev,
                                   !.angular_delta = ad.angular_delta]
        IN  IF ~ad.ok THEN [cur EXCEPT !.step = "fail_delta", !.locals = l1]
            ELSE
            LET uo == UpdateOrientation(pose_.R, ad.angular_delta, nz)
                vd == GetVelocityDelta(index_curr, index_prev, uo.R_curr, uo.R_prev)
                l2 == [l1 EXCEPT !.R_curr = uo.R_curr, !.R_prev = uo.R_prev,
                                 !.delta_t = vd.delta_t,
                                 !.velocity_delta = vd.velocity_delta]
            IN  IF ~vd.ok
                THEN [cur EXCEPT !.step = "fail_veldelta", !.locals = l2,
                                 !.pose_ = [pose_ EXCEPT !.R = uo.R]]
                ELSE
                LET up == UpdatePosition([pose_ EXCEPT !.R = uo.R], vel_,
                                         vd.delta_t, vd.velocity_delta)
                IN  [cur EXCEPT !.ret = TRUE, !.step = "integrate",
                                !.locals = l2,
                                !.pose_ = up.pose_,
                                !.vel_ = up.vel_,
                                !.imu_data_buff_ = MoveForward(imu_data_buff_),
                                !.odom_data_buff_ = MoveForward(odom_data_buff_)]

\* Activity::PublishPose: the message published
PublishPose(pose, vel) == [orientation |-> pose.R, position |-> pose.t, linear |-> vel]

\* -------------------------------------------------------------- actions
\* the inertial subscriber's callback queues a sample
ImuArrives ==
    /\ pc = "idle"
    /\ n_imu < MaxImu
    /\ \E d \in ImuSteps, m \in ImuReadings :
          LET t == imu_clock + d
          IN  /\ t >= 0
              /\ t <= MaxTime
              /\ imu_sub' = Append(imu_sub,
                        IMUData(t, m.angular_velocity, m.linear_acceleration))
              /\ imu_clock' = t
    /\ n_imu' = n_imu + 1
    /\ UNCHANGED <<instance_vars, sensor_inited, odom_sub, pc,
                   step, locals, odom_clock, n_odom, instances>>

\* the auxiliary subscriber's callback queues a sample
OdomArrives ==
    /\ pc = "idle"
    /\ n_odom < MaxOdom
    /\ \E d \in OdomPeriods :
          LET t == odom_clock + d
          IN  /\ t <= MaxTime
              /\ odom_sub' = Append(odom_sub,
                        OdomData(t, OdomState(t).pose, OdomState(t).vel))
              /\ odom_clock' = t
    /\ n_odom' = n_odom + 1
    /\ UNCHANGED <<instance_vars, sensor_inited, imu_sub, pc,
                   step, locals, imu_clock, n_imu, instances>>

\* Run is entered: ReadData drains both subscribers into the buffers
RunReadData ==
    /\ pc = "idle"
    /\ imu_data_buff_' = imu_data_buff_ \o imu_sub
    /\ odom_data_buff_' = odom_data_buff_ \o odom_sub
    /\ imu_sub' = <<>>
    /\ odom_sub' = <<>>
    /\ pc' = "loop"
    /\ step' = "read"
    /\ UNCHANGED <<initialized_, pose_, vel_, init_time_, message_odom_,
                   sensor_inited, locals, imu_clock, odom_clock,
                   n_imu, n_odom, instances>>

\* one pass of Run's loop: the HasData test, then the cycle step and the
\* publication, or the return
RunLoop ==
    /\ pc = "loop"
    /\ IF HasData
       THEN \E nz \in NormalizedOfZero :
              LET r == UpdatePose(nz)
              IN  /\ initialized_' = r.initialized_
                  /\ pose_' = r.pose_
                  /\ vel_' = r.vel_
                  /\ init_time_' = r.init_time_
                  /\ imu_data_buff_' = r.imu_data_buff_
                  /\ odom_data_buff_' = r.odom_data_buff_
                  /\ sensor_inited' = r.sensor_inited
                  /\ locals' = r.locals
                  /\ step' = r.step
                  /\ message_odom_' =
                        IF r.ret THEN PublishPose(r.pose_, r.vel_) ELSE message_odom_
                  /\ pc' = "loop"
       ELSE /\ pc' = "idle"
            /\ step' = "exit"
            /\ locals' = NoLocals
            /\ UNCHANGED <<instance_vars, sensor_inited>>
    /\ UNCHANGED <<imu_sub, odom_sub, imu_clock, odom_clock, n_imu, n_odom,
                   instances>>

\* another engine instance is constructed in the same process: its fields
\* are new, the function-local statics are not
Construct ==
    /\ pc = "idle"
    /\ instances < MaxInstances
    /\ instances' = instances + 1
    /\ initialized_' = FALSE
    /\ pose_' = [R |-> Identity3, t |-> Zero3]
    /\ vel_' = Zero3
    /\ init_time_' = <<>>
    /\ imu_data_buff_' = <<>>
    /\ odom_data_buff_' = <<>>
    /\ message_odom_' = <<>>
    /\ imu_sub' = <<>>
    /\ odom_sub' = <<>>
    /\ pc' = "idle"
    /\ step' = "none"
    /\ locals' = NoLocals
    /\ imu_clock' = 0
    /\ odom_clock' = 0
    /\ n_imu' = 0
    /\ n_odom' = 0
    /\ UNCHANGED sensor_inited

Next == ImuArrives \/ OdomArrives \/ RunReadData \/ RunLoop \/ Construct

Spec == Init /\ [][Next]_vars

\* ---------------------------------------------------------------- claims
\* a pass of Run's loop that calls the cycle step
CycleStep == pc = "loop" /\ HasData

\* the outcomes of a cycle step that returns false
FailSteps == {"fail_empty", "fail_sync", "fail_delta", "fail_veldelta"}

\* the outcomes of a cycle step that returns true
SuccessSteps == {"init", "integrate"}

\* what the engine's next cycle step is computed from
engine_state == <<instance_vars, sensor_inited>>

\* C1: every Run terminates.  The cycle step is a function of the engine's
\* state, so a loop that stops never passes through the loop with that state
\* as it was and HasData still true: such a pass is repeated forever.
C1_RunTerminates ==
    [][CycleStep => ~(HasData' /\ engine_state' = engine_state)]_vars

\* C2: no integration step of zero or negative duration is ever applied:
\* a cycle whose current sample is not later than its previous sample is
\* skipped.
C2_NoNonPositiveDuration ==
    step = "integrate" => locals.delta_t > 0

\* C3: once initialized, a pass of the loop with at least two inertial
\* samples buffered integrates, however many auxiliary samples are buffered.
C3_IntegratesWithoutAuxiliary ==
    [][(pc = "loop" /\ initialized_ /\ Len(imu_data_buff_) >= 2)
         => step' = "integrate"]_vars

\* C4: the pair integrated is the newest sample and its immediate
\* predecessor, and the inertial buffer never holds more than two samples
\* once initialized.
C4_AdjacentPair ==
    /\ step = "integrate" => locals.index_prev = locals.index_curr - 1
    /\ initialized_ => Len(imu_data_buff_) <= 2

\* C5: a cycle step of an uninitialized engine whose synchronization fails
\* returns false and leaves initialized, pose, velocity and init_time at
\* their construction values.
C5_NoSeedWithoutSync ==
    [][(CycleStep /\ ~initialized_
          /\ ~SyncData(odom_data_buff_, odom_data_buff_,
                       Last(imu_data_buff_).time).valid)
         => (step' = "fail_sync" /\ nav_vars' = nav_vars /\ init_time_' = <<>>
               /\ pose_' = [R |-> Identity3, t |-> Zero3] /\ vel_' = Zero3)]_vars

\* C6: an engine starts uninitialized; once initialized it stays so and
\* its init_time never changes; the initialization branch runs only in an
\* uninitialized engine, hence at most once.
C6_InitializedOnce ==
    /\ ~initialized_
    /\ [][/\ (instances' # instances => ~initialized_')
          /\ ((instances' = instances /\ initialized_)
               => (initialized_' /\ init_time_' = init_time_))
          /\ ((pc = "loop" /\ step' = "init") => ~initialized_)]_vars

C6_Witness ==
    /\ initialized_
    /\ step = "integrate"
    /\ init_time_ # <<>>

\* C7: a cycle step that returns false leaves rotation, position, velocity,
\* init_time, the initialized flag and both buffers as they were.
C7_FailureChangesNothing ==
    [][(CycleStep /\ step' \in FailSteps)
         => (/\ nav_vars' = nav_vars
             /\ imu_data_buff_' = imu_data_buff_
             /\ odom_data_buff_' = odom_data_buff_)]_vars

C7_Witness ==
    /\ step = "fail_sync"
    /\ ~initialized_
    /\ Len(imu_data_buff_) >= 2
    /\ Len(odom_data_buff_) >= 2

\* C8: an integration cycle whose rotation vector is zero commits the
\* rotation it started with.
C8_ZeroRotationIsIdentity ==
    (step = "integrate" /\ locals.angular_delta = Zero3)
      => (locals.R_curr = locals.R_prev /\ pose_.R = locals.R_prev)

\* C9: an integration step sets position to p + dt*v + 0.5*dt*dv with the
\* velocity v held before the step, sets velocity to v + dv, and the
\* position update leaves the rotation committed by the orientation update.
C9_PositionUsesOldVelocity ==
    [][(pc = "loop" /\ step' = "integrate")
         => LET dt == locals'.delta_t
                dv == locals'.velocity_delta
            IN  /\ pose_'.t = VAdd(VAdd(pose_.t, VScale(dt, vel_)),
                                   VHalf(VScale(dt, dv)))
                /\ vel_' = VAdd(vel_, dv)
                /\ pose_'.R = locals'.R_curr]_vars

C9_Witness ==
    /\ step = "integrate"
    /\ locals.delta_t > 0
    /\ ~IsNaN(vel_)
    /\ locals.velocity_delta # Zero3
    /\ vel_ # locals.velocity_delta

====
